---- MODULE Spec2Model ----
(***************************************************************************)
(* Model of src/src/so-1321-3864/multi-pipe-sort.c: a coordinator forks a  *)
(* pool of sorting children, deals the lines of its standard input to them *)
(* round-robin over pipes, merges their sorted output and reaps them.      *)
(*                                                                         *)
(* Data is modelled at the byte level: a C string is a sequence of non-NUL *)
(* bytes, a pipe is a bounded byte queue, and every process keeps its file *)
(* descriptors in the holder sets rd1/wr1/rd2/wr2, so that end-of-file on  *)
(* a pipe is what the kernel makes it: empty and no write end open         *)
(* anywhere.  The stdio buffer of a writer is folded into its pending      *)
(* bytes (pend, wout): the bytes reach the pipe in the same order, only    *)
(* the moment differs.                                                     *)
(*                                                                         *)
(* Spec is the program as built; LongSpec is the same program with line    *)
(* buffers of ShortBuf bytes, on inputs with lines that outgrow them.      *)
(* RatSpec models src/rational.c: its functions are operators, applied     *)
(* once to the operands of a test case as the testers of the file do.      *)
(***************************************************************************)
EXTENDS Integers, Sequences, FiniteSets, TLC

\* ------------------------------------------------------------------ bounds
MaxLines == 2       \* at most this many records on standard input
PipeCap == 1        \* capacity of a pipe, in bytes
MaxCrashes == 1     \* at most this many workers terminate abnormally
ShortBuf == 3       \* size of the line buffers where lines outgrow them
MaxMagnitude == 4   \* rational.c: operands have ints of at most this magnitude

\* ------------------------------------------------------- program constants
NUM_KIDS == 5
MAX_LINE == 4096
INT_MAX == 2147483647
INT_MIN == (-INT_MAX) - 1

\* Pool sizes explored: main() uses NUM_KIDS; distribute(), merge() and
\* wait_for_kids() take nkids as a parameter.
KidCounts == {1, 2, NUM_KIDS}

AllKids == 0 .. (NUM_KIDS - 1)
Coord == NUM_KIDS          \* holder id of the coordinator process

\* Records offered on standard input: the empty line "\n", "\t\n" and
\* "a\n" (TAB is byte 9, newline byte 10, "a" byte 97).
Records == { <<10>>, <<9, 10>>, <<97, 10>> }
\* What may follow the last newline of the input: nothing, or "A" (byte 65)
\* without a terminating newline.
Tails == { <<>>, <<65>> }

\* ----------------------------------------------------------------- helpers
Min(S) == CHOOSE x \in S : \A y \in S : x <= y

Take(s, k) == SubSeq(s, 1, k)
Drop(s, k) == SubSeq(s, k + 1, Len(s))

RECURSIVE Flatten(_)
Flatten(ss) == IF ss = <<>> THEN <<>> ELSE Head(ss) \o Flatten(Tail(ss))

\* strlen(): the strings of the model hold no NUL byte.
strlen(s) == Len(s)

\* strcmp() taken for strcasecmp(): letters compare without regard to case.
ToLower(c) == IF c >= 65 /\ c <= 90 THEN c + 32 ELSE c

RECURSIVE strcmp_nocase(_, _)
strcmp_nocase(s1, s2) ==
    LET c1 == IF s1 = <<>> THEN 0 ELSE ToLower(Head(s1))
        c2 == IF s2 = <<>> THEN 0 ELSE ToLower(Head(s2))
    IN  IF c1 # c2 THEN c1 - c2
        ELSE IF c1 = 0 THEN 0
        ELSE strcmp_nocase(Tail(s1), Tail(s2))

\* strcmp(): difference of the first pair of differing bytes, the end of a
\* string counting as the NUL byte; bytes compare as unsigned char.
RECURSIVE strcmp(_, _)
strcmp(s1, s2) ==
    LET c1 == IF s1 = <<>> THEN 0 ELSE Head(s1)
        c2 == IF s2 = <<>> THEN 0 ELSE Head(s2)
    IN  IF c1 # c2 THEN c1 - c2
        ELSE IF c1 = 0 THEN 0
        ELSE strcmp(Tail(s1), Tail(s2))

\* qs_compare() with its arguments exchanged.
qs_compare_swapped(v1, v2) == strcmp(v2, v1)

qs_compare(v1, v2) == strcmp(v1, v2)

\* qsort() with qs_compare: strings that compare equal are identical, so
\* the result does not depend on the sorting algorithm.
RECURSIVE qs_insert(_, _)
qs_insert(x, s) ==
    IF s = <<>> THEN <<x>>
    ELSE IF qs_compare(x, Head(s)) <= 0 THEN <<x>> \o s
    ELSE <<Head(s)>> \o qs_insert(x, Tail(s))

RECURSIVE qsort(_)
qsort(s) == IF s = <<>> THEN <<>> ELSE qs_insert(Head(s), qsort(Tail(s)))

\* fgets(buf, maxlen, fp) on the bytes `data` available from fp: the number
\* of bytes of the line it returns, through the first newline or maxlen-1
\* bytes; 0 when the data holds no complete line yet.
fgets_len(data, maxlen) ==
    LET lim == IF Len(data) < maxlen - 1 THEN Len(data) ELSE maxlen - 1
        nl  == { k \in 1 .. lim : data[k] = 10 }
    IN  IF nl # {} THEN Min(nl)
        ELSE IF Len(data) >= maxlen - 1 THEN maxlen - 1
        ELSE 0

\* Successive fgets() calls on `data` while a complete line is available:
\* the lines returned and the bytes left in the FILE buffer.
RECURSIVE fgets_all(_, _)
fgets_all(data, maxlen) ==
    LET k == fgets_len(data, maxlen)
    IN  IF k = 0 THEN [lines |-> <<>>, rest |-> data]
        ELSE LET r == fgets_all(Drop(data, k), maxlen)
             IN  [lines |-> <<Take(data, k)>> \o r.lines, rest |-> r.rest]

\* ------------------------------------------------------------------- state
VARIABLES
    nkids,      \* size of the pool
    pc,         \* where the coordinator is
    status,     \* exit status of the coordinator, -1 while it runs
    kidx,       \* loop index i of main(), distribute(), merge()
    n,          \* distribute(): round-robin cursor
    pend,       \* distribute(): bytes of `input` not yet written to kids[n]
    kids,       \* the Child table: fp_to, fp_from, pid
    stdin,      \* bytes of standard input not yet read
    stdout,     \* bytes written to standard output
    pipe1,      \* pipe1[i]: bytes in flight from parent to child i
    pipe2,      \* pipe2[i]: bytes in flight from child i to parent
    rd1, wr1,   \* processes holding the read / write end of pipe1[i]
    rd2, wr2,   \* processes holding the read / write end of pipe2[i]
    wpc,        \* where child i is
    wstatus,    \* exit status of child i, -1 while it runs
    wbuf,       \* child i: bytes read from stdin, not yet a full line
    wlines,     \* child i: be_childish() lines[0 .. num_lines-1]
    wout,       \* child i: bytes of sorted output not yet written
    mbuf,       \* merge: bytes read from kids[i].fp_from, not yet returned
    lines,      \* merge: lines[i]
    len,        \* merge: len[i]
    output,     \* merge: output
    min_kid,    \* min_line(): the child being refilled
    input0,     \* history: standard input as given
    sent,       \* history: every byte written to pipe1[i]
    wrote,      \* history: every byte written to pipe2[i]
    emitted,    \* history: the strings written to standard output, in order
    crashes,    \* history: number of workers that terminated abnormally
    max_line,   \* sizeof(input), and the maxlen handed to read_line()
    ri_op,      \* rational.c: the function last applied, "none" before
    ri_lhs,     \* rational.c: left operand (for ri_new: the two ints given)
    ri_rhs,     \* rational.c: right operand
    ri_res,     \* rational.c: the RationalInt returned
    ri_rc       \* rational.c: the int returned by ri_cmp()

ratVars == << ri_op, ri_lhs, ri_rhs, ri_res, ri_rc >>

pipeVars == << nkids, pc, status, kidx, n, pend, kids, stdin, stdout,
               pipe1, pipe2, rd1, wr1, rd2, wr2,
               wpc, wstatus, wbuf, wlines, wout,
               mbuf, lines, len, output, min_kid,
               input0, sent, wrote, emitted, crashes, max_line >>

vars == << pipeVars, ratVars >>

coordVars == << pc, status, kidx, n, pend, kids, stdin, stdout,
                mbuf, lines, len, output, min_kid, emitted >>
workerVars == << wpc, wstatus, wbuf, wlines, wout >>
endVars == << rd1, wr1, rd2, wr2 >>

Kid == 0 .. (nkids - 1)

\* Inputs: up to MaxLines records, then possibly an unterminated tail.
RECURSIVE SeqsUpTo(_, _)
SeqsUpTo(S, k) ==
    IF k = 0 THEN { <<>> }
    ELSE LET shorter == SeqsUpTo(S, k - 1)
         IN  shorter \cup { Append(s, x) : s \in shorter, x \in S }

Inputs == { Flatten(rs) \o t : rs \in SeqsUpTo(Records, MaxLines), t \in Tails }

\* The pipeline before main() has created anything: a pool of k children to
\* start, inp on standard input, line buffers of ml bytes.
PipeStart(k, inp, ml) ==
    /\ nkids = k
    /\ max_line = ml
    /\ pc = "make_kid"
    /\ status = -1
    /\ kidx = 0
    /\ n = 0
    /\ pend = <<>>
    /\ kids = [i \in AllKids |-> [fp_to |-> FALSE, fp_from |-> FALSE, pid |-> 0]]
    /\ stdin = inp
    /\ stdout = <<>>
    /\ pipe1 = [i \in AllKids |-> <<>>]
    /\ pipe2 = [i \in AllKids |-> <<>>]
    /\ rd1 = [i \in AllKids |-> {}]
    /\ wr1 = [i \in AllKids |-> {}]
    /\ rd2 = [i \in AllKids |-> {}]
    /\ wr2 = [i \in AllKids |-> {}]
    /\ wpc = [i \in AllKids |-> "none"]
    /\ wstatus = [i \in AllKids |-> -1]
    /\ wbuf = [i \in AllKids |-> <<>>]
    /\ wlines = [i \in AllKids |-> <<>>]
    /\ wout = [i \in AllKids |-> <<>>]
    /\ mbuf = [i \in AllKids |-> <<>>]
    /\ lines = [i \in AllKids |-> <<>>]
    /\ len = [i \in AllKids |-> 0]
    /\ output = <<>>
    /\ min_kid = 0
    /\ input0 = stdin
    /\ sent = [i \in AllKids |-> <<>>]
    /\ wrote = [i \in AllKids |-> <<>>]
    /\ emitted = <<>>
    /\ crashes = 0

\* No function of rational.c has been applied.
RatIdle ==
    /\ ri_op = "none"
    /\ ri_lhs = [numerator |-> 0, denominator |-> 1]
    /\ ri_rhs = [numerator |-> 0, denominator |-> 1]
    /\ ri_res = [numerator |-> 0, denominator |-> 1]
    /\ ri_rc = 0

Init ==
    /\ \E k \in KidCounts, inp \in Inputs : PipeStart(k, inp, MAX_LINE)
    /\ RatIdle

\* A line that does not fit a buffer of ShortBuf bytes: ShortBuf - 1 times
\* "a" and the newline, one byte more than fgets() returns at a time.
LongLine == [k \in 1 .. ShortBuf |-> IF k = ShortBuf THEN 10 ELSE 97]

\* Inputs of newline-terminated records, "b\n" or the over-long line.
LongInputs == { Flatten(rs) : rs \in SeqsUpTo({ <<98, 10>>, LongLine }, MaxLines) }

\* The program built with line buffers of ShortBuf bytes.
LongInit ==
    /\ \E k \in {1, 2}, inp \in LongInputs : PipeStart(k, inp, ShortBuf)
    /\ RatIdle

\* A process that terminates closes every descriptor it holds.
CloseAll(ends, p) == [i \in AllKids |-> ends[i] \ {p}]


\* fork(): the child starts with a copy of every descriptor its parent holds.
Inherit(ends, i) ==
    [j \in AllKids |-> IF Coord \in ends[j] THEN ends[j] \cup {i} ELSE ends[j]]

\* exit() or death of the coordinator.
CoordExit(code, how) ==
    /\ pc' = how
    /\ status' = code
    /\ rd1' = CloseAll(rd1, Coord)
    /\ wr1' = CloseAll(wr1, Coord)
    /\ rd2' = CloseAll(rd2, Coord)
    /\ wr2' = CloseAll(wr2, Coord)

\* err_exit(): report and exit(1).
err_exit == CoordExit(1, "failed")

\* ------------------------------------------------------------ coordinator
\* make_kid() succeeding for kids[i]: both pipes made, the child forked.
\* The child closes the four descriptors of its own two pipes after dup2()
\* and nothing else; the parent keeps pipe1's write end and pipe2's read end.
make_kid_ok(i) ==
    /\ kids' = [kids EXCEPT ![i] = [fp_to |-> TRUE, fp_from |-> TRUE, pid |-> i + 1]]
    /\ rd1' = [Inherit(rd1, i) EXCEPT ![i] = {i}]
    /\ wr1' = [Inherit(wr1, i) EXCEPT ![i] = {Coord}]
    /\ rd2' = [Inherit(rd2, i) EXCEPT ![i] = {Coord}]
    /\ wr2' = [Inherit(wr2, i) EXCEPT ![i] = {i}]
    /\ wpc' = [wpc EXCEPT ![i] = "read"]

\* make_kid() returning -1: pipe() or fork() failed, the descriptors made so
\* far are closed again; fork() failing leaves -1 in kid->pid.
make_kid_fail(i, r) ==
    kids' = IF r = "fork" THEN [kids EXCEPT ![i].pid = -1] ELSE kids

\* main() ignoring the result of make_kid(): the loop goes on.
StartFault_ignored(i) ==
    /\ kidx' = kidx + 1
    /\ pc' = IF kidx + 1 >= nkids THEN "distribute" ELSE "make_kid"
    /\ UNCHANGED << status, rd1, wr1, rd2, wr2, wpc >>

\* main(): what follows a failed make_kid().
StartFault(i) ==
    /\ err_exit
    /\ UNCHANGED << kidx, wpc >>

\* main(): one iteration of the loop that starts the children.
MakeKid ==
    /\ pc = "make_kid"
    /\ \E r \in {"ok", "pipe1", "pipe2", "fork"} :
          IF r = "ok"
          THEN /\ make_kid_ok(kidx)
               /\ kidx' = kidx + 1
               /\ pc' = IF kidx + 1 >= nkids THEN "distribute" ELSE "make_kid"
               /\ UNCHANGED status
          ELSE /\ make_kid_fail(kidx, r)
               /\ StartFault(kidx)
    /\ UNCHANGED << nkids, max_line, ratVars, n, pend, stdin, stdout, pipe1, pipe2,
                    wstatus, wbuf, wlines, wout, mbuf, lines, len, output,
                    min_kid, input0, sent, wrote, emitted, crashes >>

\* distribute(): fgets(input, sizeof(input), stdin).  Standard input is a
\* file: at its end fgets returns what is left, then NULL.
DistRead ==
    /\ pc = "distribute"
    /\ LET c   == fgets_len(stdin, max_line)
           got == IF c > 0 THEN c ELSE Len(stdin)
       IN  IF got > 0
           THEN /\ pend' = Take(stdin, got)
                /\ stdin' = Drop(stdin, got)
                /\ pc' = "fputs"
                /\ UNCHANGED kidx
           ELSE /\ pc' = "close"
                /\ kidx' = 0
                /\ UNCHANGED << pend, stdin >>
    /\ UNCHANGED << nkids, max_line, ratVars, status, n, kids, stdout, pipe1, pipe2,
                    mbuf, lines, len, output, min_kid,
                    input0, sent, wrote, emitted, crashes >>
    /\ UNCHANGED workerVars
    /\ UNCHANGED endVars

\* distribute() without the ++n: every line goes to the same child.
DistWrite_stuck ==
    /\ pc = "fputs"
    /\ IF rd1[n] = {}
       THEN /\ CoordExit(13, "killed")
            /\ UNCHANGED << n, pend, pipe1, sent >>
       ELSE /\ Len(pipe1[n]) < PipeCap
            /\ LET room == PipeCap - Len(pipe1[n])
                   c    == IF Len(pend) < room THEN Len(pend) ELSE room
               IN  /\ pipe1' = [pipe1 EXCEPT ![n] = @ \o Take(pend, c)]
                   /\ sent' = [sent EXCEPT ![n] = @ \o Take(pend, c)]
                   /\ pend' = Drop(pend, c)
                   /\ pc' = IF c = Len(pend) THEN "distribute" ELSE pc
                   /\ UNCHANGED n
            /\ UNCHANGED << status, rd1, wr1, rd2, wr2 >>
    /\ UNCHANGED << nkids, max_line, ratVars, kidx, kids, stdin, stdout, pipe2,
                    mbuf, lines, len, output, min_kid,
                    input0, wrote, emitted, crashes >>
    /\ UNCHANGED workerVars

\* distribute() treating a failed fputs() as local: the line is dropped and
\* the cursor moves on.
DistWrite_skip ==
    /\ pc = "fputs"
    /\ IF rd1[n] = {}
       THEN /\ pend' = <<>>
            /\ n' = IF n + 1 >= nkids THEN 0 ELSE n + 1
            /\ pc' = "distribute"
            /\ UNCHANGED << pipe1, sent >>
       ELSE /\ Len(pipe1[n]) < PipeCap
            /\ LET room == PipeCap - Len(pipe1[n])
                   c    == IF Len(pend) < room THEN Len(pend) ELSE room
               IN  /\ pipe1' = [pipe1 EXCEPT ![n] = @ \o Take(pend, c)]
                   /\ sent' = [sent EXCEPT ![n] = @ \o Take(pend, c)]
                   /\ pend' = Drop(pend, c)
                   /\ IF c = Len(pend)
                      THEN /\ n' = IF n + 1 >= nkids THEN 0 ELSE n + 1
                           /\ pc' = "distribute"
                      ELSE UNCHANGED << n, pc >>
    /\ UNCHANGED << status, rd1, wr1, rd2, wr2 >>
    /\ UNCHANGED << nkids, max_line, ratVars, kidx, kids, stdin, stdout, pipe2,
                    mbuf, lines, len, output, min_kid,
                    input0, wrote, emitted, crashes >>
    /\ UNCHANGED workerVars

\* distribute(): fputs(input, kids[n].fp_to), then the cursor moves on.
\* fputs() writes the string as it is.  Writing to a pipe nobody can read
\* raises SIGPIPE, whose default action ends the process.
DistWrite ==
    /\ pc = "fputs"
    /\ IF rd1[n] = {}
       THEN /\ CoordExit(13, "killed")
            /\ UNCHANGED << n, pend, pipe1, sent >>
       ELSE /\ Len(pipe1[n]) < PipeCap
            /\ LET room == PipeCap - Len(pipe1[n])
                   c    == IF Len(pend) < room THEN Len(pend) ELSE room
               IN  /\ pipe1' = [pipe1 EXCEPT ![n] = @ \o Take(pend, c)]
                   /\ sent' = [sent EXCEPT ![n] = @ \o Take(pend, c)]
                   /\ pend' = Drop(pend, c)
                   /\ IF c = Len(pend)
                      THEN /\ n' = IF n + 1 >= nkids THEN 0 ELSE n + 1
                           /\ pc' = "distribute"
                      ELSE UNCHANGED << n, pc >>
            /\ UNCHANGED << status, rd1, wr1, rd2, wr2 >>
    /\ UNCHANGED << nkids, max_line, ratVars, kidx, kids, stdin, stdout, pipe2,
                    mbuf, lines, len, output, min_kid,
                    input0, wrote, emitted, crashes >>
    /\ UNCHANGED workerVars

\* distribute() clearing kids[i].fp_to without fclose(): the write end
\* stays open.
DistClose_leak ==
    /\ pc = "close"
    /\ kids' = [kids EXCEPT ![kidx].fp_to = FALSE]
    /\ kidx' = IF kidx + 1 >= nkids THEN 0 ELSE kidx + 1
    /\ pc' = IF kidx + 1 >= nkids THEN "preload" ELSE "close"
    /\ UNCHANGED << nkids, max_line, ratVars, status, n, pend, stdin, stdout, pipe1, pipe2,
                    rd1, wr1, rd2, wr2, mbuf, lines, len, output, min_kid,
                    input0, sent, wrote, emitted, crashes >>
    /\ UNCHANGED << wpc, wstatus, wbuf, wlines, wout >>

\* distribute(): fclose(kids[i].fp_to); kids[i].fp_to = 0.
DistClose ==
    /\ pc = "close"
    /\ kids' = [kids EXCEPT ![kidx].fp_to = FALSE]
    /\ wr1' = [wr1 EXCEPT ![kidx] = @ \ {Coord}]
    /\ kidx' = IF kidx + 1 >= nkids THEN 0 ELSE kidx + 1
    /\ pc' = IF kidx + 1 >= nkids THEN "preload" ELSE "close"
    /\ UNCHANGED << nkids, max_line, ratVars, status, n, pend, stdin, stdout, pipe1, pipe2,
                    rd1, rd2, wr2, mbuf, lines, len, output, min_kid,
                    input0, sent, wrote, emitted, crashes >>
    /\ UNCHANGED workerVars

\* read_line() can return: a line is buffered, or the pipe completes one,
\* or the stream is at its end.
ReadReady(k) ==
    \/ fgets_len(mbuf[k], max_line) > 0
    \/ fgets_len(mbuf[k] \o pipe2[k], max_line) > 0
    \/ (pipe2[k] = <<>> /\ wr2[k] = {})

\* read_line() that at the end of the stream closes it but leaves *length
\* as it was.
read_line_nomark(k) ==
    LET inbuf == fgets_len(mbuf[k], max_line) > 0
        data  == IF inbuf THEN mbuf[k] ELSE mbuf[k] \o pipe2[k]
        c     == fgets_len(data, max_line)
        got   == IF c > 0 THEN c ELSE Len(data)
    IN  /\ ReadReady(k)
        /\ pipe2' = IF inbuf THEN pipe2 ELSE [pipe2 EXCEPT ![k] = <<>>]
        /\ IF got > 0
           THEN /\ lines' = [lines EXCEPT ![k] = Take(data, got)]
                /\ len' = [len EXCEPT ![k] = strlen(Take(data, got))]
                /\ mbuf' = [mbuf EXCEPT ![k] = Drop(data, got)]
                /\ UNCHANGED << kids, rd2 >>
           ELSE /\ kids' = [kids EXCEPT ![k].fp_from = FALSE]
                /\ rd2' = [rd2 EXCEPT ![k] = @ \ {Coord}]
                /\ UNCHANGED << mbuf, lines, len >>

\* read_line() cutting the newline off the line it stores.
read_line_chomp(k) ==
    LET inbuf == fgets_len(mbuf[k], max_line) > 0
        data  == IF inbuf THEN mbuf[k] ELSE mbuf[k] \o pipe2[k]
        c     == fgets_len(data, max_line)
        got   == IF c > 0 THEN c ELSE Len(data)
    IN  /\ ReadReady(k)
        /\ pipe2' = IF inbuf THEN pipe2 ELSE [pipe2 EXCEPT ![k] = <<>>]
        /\ IF got > 0
           THEN /\ lines' = [lines EXCEPT ![k] = Take(data, got - 1)]
                /\ len' = [len EXCEPT ![k] = strlen(Take(data, got - 1))]
                /\ mbuf' = [mbuf EXCEPT ![k] = Drop(data, got)]
                /\ UNCHANGED << kids, rd2 >>
           ELSE /\ lines' = [lines EXCEPT ![k] = <<>>]
                /\ len' = [len EXCEPT ![k] = -1]
                /\ kids' = [kids EXCEPT ![k].fp_from = FALSE]
                /\ rd2' = [rd2 EXCEPT ![k] = @ \ {Coord}]
                /\ UNCHANGED mbuf

\* read_line(&kids[k], lines[k], MAX_LINE, &len[k]).
read_line(k) ==
    LET inbuf == fgets_len(mbuf[k], max_line) > 0
        data  == IF inbuf THEN mbuf[k] ELSE mbuf[k] \o pipe2[k]
        c     == fgets_len(data, max_line)
        got   == IF c > 0 THEN c ELSE Len(data)
    IN  /\ ReadReady(k)
        /\ pipe2' = IF inbuf THEN pipe2 ELSE [pipe2 EXCEPT ![k] = <<>>]
        /\ IF got > 0
           THEN /\ lines' = [lines EXCEPT ![k] = Take(data, got)]
                /\ len' = [len EXCEPT ![k] = strlen(Take(data, got))]
                /\ mbuf' = [mbuf EXCEPT ![k] = Drop(data, got)]
                /\ UNCHANGED << kids, rd2 >>
           ELSE /\ lines' = [lines EXCEPT ![k] = <<>>]
                /\ len' = [len EXCEPT ![k] = -1]
                /\ kids' = [kids EXCEPT ![k].fp_from = FALSE]
                /\ rd2' = [rd2 EXCEPT ![k] = @ \ {Coord}]
                /\ UNCHANGED mbuf

\* The child the coordinator is reading from.
Reading == IF pc = "preload" THEN kidx ELSE min_kid

\* A read() inside fgets() that brings bytes but no complete line yet.
MergeFill ==
    /\ pc \in {"preload", "refill"}
    /\ pipe2[Reading] # <<>>
    /\ ~ ReadReady(Reading)
    /\ mbuf' = [mbuf EXCEPT ![Reading] = @ \o pipe2[Reading]]
    /\ pipe2' = [pipe2 EXCEPT ![Reading] = <<>>]
    /\ UNCHANGED << nkids, max_line, ratVars, pc, status, kidx, n, pend, kids, stdin, stdout,
                    pipe1, lines, len, output, min_kid,
                    input0, sent, wrote, emitted, crashes >>
    /\ UNCHANGED workerVars
    /\ UNCHANGED endVars

\* merge(): preload the first line from each kid.
Preload ==
    /\ pc = "preload"
    /\ read_line(kidx)
    /\ kidx' = IF kidx + 1 >= nkids THEN 0 ELSE kidx + 1
    /\ pc' = IF kidx + 1 >= nkids THEN "merge" ELSE "preload"
    /\ UNCHANGED << nkids, max_line, ratVars, status, n, pend, stdin, stdout, pipe1,
                    rd1, wr1, wr2, output, min_kid,
                    input0, sent, wrote, emitted, crashes >>
    /\ UNCHANGED workerVars

\* not_all_done() looking at the first child only.
not_all_done_first(lengths) == lengths[0] > 0

\* not_all_done(): some child still has a line held.
not_all_done(lengths) == \E i \in Kid : lengths[i] > 0

\* min_line() with the comparison turned round: it keeps the greatest head.
RECURSIVE min_scan_greatest(_, _, _, _)
min_scan_greatest(i, mk, ms, has) ==
    IF i >= nkids THEN mk
    ELSE IF len[i] <= 0 THEN min_scan_greatest(i + 1, mk, ms, has)
    ELSE IF (~ has) \/ strcmp(ms, lines[i]) < 0
         THEN min_scan_greatest(i + 1, i, lines[i], TRUE)
    ELSE min_scan_greatest(i + 1, mk, ms, has)

\* min_line() replacing the minimum by every head that is not greater:
\* among equal heads the last child wins.
RECURSIVE min_scan_last(_, _, _, _)
min_scan_last(i, mk, ms, has) ==
    IF i >= nkids THEN mk
    ELSE IF len[i] <= 0 THEN min_scan_last(i + 1, mk, ms, has)
    ELSE IF (~ has) \/ strcmp(ms, lines[i]) >= 0
         THEN min_scan_last(i + 1, i, lines[i], TRUE)
    ELSE min_scan_last(i + 1, mk, ms, has)

\* min_line(): the scan for the smallest head, from child i on; `has` says
\* whether min_str is set.
RECURSIVE min_scan(_, _, _, _)
min_scan(i, mk, ms, has) ==
    IF i >= nkids THEN mk
    ELSE IF len[i] <= 0 THEN min_scan(i + 1, mk, ms, has)
    ELSE IF (~ has) \/ strcmp(ms, lines[i]) > 0
         THEN min_scan(i + 1, i, lines[i], TRUE)
    ELSE min_scan(i + 1, mk, ms, has)

\* merge(): the loop test and, in min_line(), the choice of the child whose
\* head is copied to output.
MinLine ==
    /\ pc = "merge"
    /\ IF not_all_done(len)
       THEN /\ min_kid' = min_scan(0, 0, <<>>, FALSE)
            /\ output' = lines[min_kid']
            /\ pc' = "refill"
       ELSE /\ pc' = "wait"
            /\ UNCHANGED << min_kid, output >>
    /\ UNCHANGED << nkids, max_line, ratVars, status, kidx, n, pend, kids, stdin, stdout,
                    pipe1, pipe2, mbuf, lines, len,
                    input0, sent, wrote, emitted, crashes >>
    /\ UNCHANGED workerVars
    /\ UNCHANGED endVars

\* min_line(): read_line() for the chosen child; back in merge():
\* fputs(output, stdout).
Refill ==
    /\ pc = "refill"
    /\ read_line(min_kid)
    /\ stdout' = stdout \o output
    /\ emitted' = Append(emitted, output)
    /\ pc' = "merge"
    /\ UNCHANGED << nkids, max_line, ratVars, status, kidx, n, pend, stdin, pipe1,
                    rd1, wr1, wr2, output, min_kid,
                    input0, sent, wrote, crashes >>
    /\ UNCHANGED workerVars

\* wait_for_kids() without the loop over the table: the child is waited
\* for, its entry keeps its pid.
Reap_nomark ==
    /\ pc = "wait"
    /\ \E i \in Kid :
          /\ wpc[i] = "zombie"
          /\ wpc' = [wpc EXCEPT ![i] = "reaped"]
    /\ UNCHANGED << nkids, max_line, ratVars, pc, status, kidx, n, pend, kids,
                    stdin, stdout, pipe1, pipe2, wstatus, wbuf, wlines, wout,
                    mbuf, lines, len, output, min_kid,
                    input0, sent, wrote, emitted, crashes >>
    /\ UNCHANGED endVars

\* waitpid() called from the merge loop as well: a child is waited for as
\* soon as it has terminated.
Reap_early ==
    /\ pc \in {"merge", "refill", "wait"}
    /\ \E i \in Kid :
          /\ wpc[i] = "zombie"
          /\ wpc' = [wpc EXCEPT ![i] = "reaped"]
          /\ kids' = [j \in AllKids |->
                        IF kids[j].pid = i + 1 THEN [kids[j] EXCEPT !.pid = -1]
                        ELSE kids[j]]
    /\ UNCHANGED << nkids, max_line, ratVars, pc, status, kidx, n, pend,
                    stdin, stdout, pipe1, pipe2, wstatus, wbuf, wlines, wout,
                    mbuf, lines, len, output, min_kid,
                    input0, sent, wrote, emitted, crashes >>
    /\ UNCHANGED endVars

\* wait_for_kids(): waitpid(-1, &status, 0) returns a terminated child; its
\* entry in the table is marked.
Reap ==
    /\ pc = "wait"
    /\ \E i \in Kid :
          /\ wpc[i] = "zombie"
          /\ wpc' = [wpc EXCEPT ![i] = "reaped"]
          /\ kids' = [j \in AllKids |->
                        IF kids[j].pid = i + 1 THEN [kids[j] EXCEPT !.pid = -1]
                        ELSE kids[j]]
    /\ UNCHANGED << nkids, max_line, ratVars, pc, status, kidx, n, pend, stdin, stdout,
                    pipe1, pipe2, wstatus, wbuf, wlines, wout,
                    mbuf, lines, len, output, min_kid,
                    input0, sent, wrote, emitted, crashes >>
    /\ UNCHANGED endVars

\* wait_for_kids(): waitpid() returns -1 once no child is left; the check
\* loop; main() returns 0.
WaitReturn ==
    /\ pc = "wait"
    /\ \A i \in Kid : wpc[i] \in {"none", "reaped"}
    /\ IF \A i \in Kid : kids[i].pid = -1
       THEN CoordExit(0, "done")
       ELSE err_exit
    /\ UNCHANGED << nkids, max_line, ratVars, kidx, n, pend, kids, stdin, stdout,
                    pipe1, pipe2, mbuf, lines, len, output, min_kid,
                    input0, sent, wrote, emitted, crashes >>
    /\ UNCHANGED workerVars

\* ---------------------------------------------------------------- workers
\* Child i terminates: the kernel closes its descriptors, and it stays a
\* zombie until it is waited for.
KidGone(i, code) ==
    /\ wpc' = [wpc EXCEPT ![i] = "zombie"]
    /\ wstatus' = [wstatus EXCEPT ![i] = code]
    /\ rd1' = CloseAll(rd1, i)
    /\ wr1' = CloseAll(wr1, i)
    /\ rd2' = CloseAll(rd2, i)
    /\ wr2' = CloseAll(wr2, i)

\* be_childish(): the read loop, for as many lines as one read() of the
\* pipe completes; each is estrdup()ed into lines[num_lines++].
WorkerRead(i) ==
    /\ wpc[i] = "read"
    /\ pipe1[i] # <<>>
    /\ LET r == fgets_all(wbuf[i] \o pipe1[i], max_line)
       IN  /\ wlines' = [wlines EXCEPT ![i] = @ \o r.lines]
           /\ wbuf' = [wbuf EXCEPT ![i] = r.rest]
    /\ pipe1' = [pipe1 EXCEPT ![i] = <<>>]
    /\ UNCHANGED << wpc, wstatus, wout, pipe2, nkids, max_line, ratVars, input0, sent, wrote, crashes >>
    /\ UNCHANGED coordVars
    /\ UNCHANGED endVars

\* be_childish() without the qsort(): the lines are written as they were
\* read.
WorkerSort_asread(i) ==
    /\ wpc[i] = "read"
    /\ pipe1[i] = <<>>
    /\ wr1[i] = {}
    /\ LET all == IF wbuf[i] = <<>> THEN wlines[i] ELSE Append(wlines[i], wbuf[i])
       IN  /\ wlines' = [wlines EXCEPT ![i] = all]
           /\ wout' = [wout EXCEPT ![i] = Flatten(all)]
    /\ wbuf' = [wbuf EXCEPT ![i] = <<>>]
    /\ wpc' = [wpc EXCEPT ![i] = "write"]
    /\ UNCHANGED << wstatus, pipe1, pipe2, nkids, max_line, ratVars, input0,
                    sent, wrote, crashes >>
    /\ UNCHANGED coordVars
    /\ UNCHANGED endVars

\* be_childish(): fgets() meets the end of the stream (a last line without
\* newline is still returned), then qsort() and the fputs() loop, which
\* fills the stdout buffer of the child with the lines as they are.
WorkerSort(i) ==
    /\ wpc[i] = "read"
    /\ pipe1[i] = <<>>
    /\ wr1[i] = {}
    /\ LET all == IF wbuf[i] = <<>> THEN wlines[i] ELSE Append(wlines[i], wbuf[i])
       IN  /\ wlines' = [wlines EXCEPT ![i] = qsort(all)]
           /\ wout' = [wout EXCEPT ![i] = Flatten(qsort(all))]
    /\ wbuf' = [wbuf EXCEPT ![i] = <<>>]
    /\ wpc' = [wpc EXCEPT ![i] = "write"]
    /\ UNCHANGED << wstatus, pipe1, pipe2, nkids, max_line, ratVars, input0, sent, wrote, crashes >>
    /\ UNCHANGED coordVars
    /\ UNCHANGED endVars

\* The buffered output goes down pipe2 as far as there is room; with no
\* reader left the write raises SIGPIPE.
WorkerWrite(i) ==
    /\ wpc[i] = "write"
    /\ wout[i] # <<>>
    /\ IF rd2[i] = {}
       THEN /\ KidGone(i, 13)
            /\ UNCHANGED << wout, pipe2, wrote >>
       ELSE /\ Len(pipe2[i]) < PipeCap
            /\ LET room == PipeCap - Len(pipe2[i])
                   c    == IF Len(wout[i]) < room THEN Len(wout[i]) ELSE room
               IN  /\ pipe2' = [pipe2 EXCEPT ![i] = @ \o Take(wout[i], c)]
                   /\ wrote' = [wrote EXCEPT ![i] = @ \o Take(wout[i], c)]
                   /\ wout' = [wout EXCEPT ![i] = Drop(@, c)]
            /\ UNCHANGED << wpc, wstatus, rd1, wr1, rd2, wr2 >>
    /\ UNCHANGED << wbuf, wlines, pipe1, nkids, max_line, ratVars, input0, sent, crashes >>
    /\ UNCHANGED coordVars

\* be_childish(): exit(0) once everything is written.
WorkerExit(i) ==
    /\ wpc[i] = "write"
    /\ wout[i] = <<>>
    /\ KidGone(i, 0)
    /\ UNCHANGED << wbuf, wlines, wout, pipe1, pipe2, nkids, max_line, ratVars,
                    input0, sent, wrote, crashes >>
    /\ UNCHANGED coordVars

\* A child terminates abnormally: err_exit("Out of memory!") in
\* be_childish() or estrdup(), or a signal.  What it had not written is lost.
WorkerCrash(i) ==
    /\ wpc[i] \in {"read", "write"}
    /\ crashes < MaxCrashes
    /\ KidGone(i, 1)
    /\ crashes' = crashes + 1
    /\ UNCHANGED << wbuf, wlines, wout, pipe1, pipe2, nkids, max_line, ratVars,
                    input0, sent, wrote >>
    /\ UNCHANGED coordVars

\* ------------------------------------------------------------ specification
Next ==
    \/ MakeKid
    \/ DistRead
    \/ DistWrite
    \/ DistClose
    \/ MergeFill
    \/ Preload
    \/ MinLine
    \/ Refill
    \/ Reap
    \/ WaitReturn
    \/ \E i \in Kid : WorkerRead(i)
    \/ \E i \in Kid : WorkerSort(i)
    \/ \E i \in Kid : WorkerWrite(i)
    \/ \E i \in Kid : WorkerExit(i)
    \/ \E i \in Kid : WorkerCrash(i)

Spec == Init /\ [][Next]_vars

\* The same program on inputs with lines longer than its line buffers.
LongSpec == LongInit /\ [][Next]_vars

\* Every process that can take a step of its program eventually takes one;
\* nothing obliges a worker to fail.
CoordNext ==
    \/ MakeKid \/ DistRead \/ DistWrite \/ DistClose \/ MergeFill
    \/ Preload \/ MinLine \/ Refill \/ Reap \/ WaitReturn

WorkerNext(i) ==
    WorkerRead(i) \/ WorkerSort(i) \/ WorkerWrite(i) \/ WorkerExit(i)

FairSpec ==
    /\ Spec
    /\ WF_vars(CoordNext)
    /\ \A i \in AllKids : WF_vars(WorkerNext(i))

TypeOK ==
    /\ nkids \in KidCounts
    /\ pc \in {"make_kid", "distribute", "fputs", "close", "preload", "merge",
               "refill", "wait", "done", "failed", "killed"}
    /\ \A i \in AllKids : Len(pipe1[i]) <= PipeCap /\ Len(pipe2[i]) <= PipeCap

\* -------------------------------------------------------------- rational.c
\* The / and % of C truncate toward zero; the remainder takes the sign of
\* the dividend.  Division by zero does not occur below.
c_div(a, b) ==
    LET q == (IF a < 0 THEN -a ELSE a) \div (IF b < 0 THEN -b ELSE b)
    IN  IF (a < 0) = (b < 0) THEN q ELSE -q

c_mod(a, b) == a - b * c_div(a, b)

iabs(x) == IF x < 0 THEN -x ELSE x
signum(x) == IF x > 0 THEN 1 ELSE IF x < 0 THEN -1 ELSE 0

\* gcd() of gcd.h, called with non-negative ints: the greatest common divisor.
RECURSIVE gcd(_, _)
gcd(x, y) == IF y = 0 THEN x ELSE gcd(y, x % y)

RECURSIVE gcd_ll(_, _)
gcd_ll(x, y) ==
    IF x = 0 \/ y = 0 THEN 0
    ELSE LET r == c_mod(x, y)
         IN  IF r # 0 THEN gcd_ll(y, r) ELSE y

RationalInt(num, den) == [numerator |-> num, denominator |-> den]

\* What stands for a failed assert(): the program aborts, no value is returned.
Aborted == RationalInt(0, 0)

\* ri_chk(): the storage rules as the code asserts them.
ri_chk(val) ==
    /\ val.denominator # 0 /\ val.denominator # INT_MIN
    /\ val.numerator >= 0
    /\ val.numerator = 0 \/ gcd(iabs(val.numerator), iabs(val.denominator)) = 1

\* ri_new() storing the magnitude of the denominator: the sign is lost.
ri_new_unsigned(numerator, denominator) ==
    IF denominator = 0 THEN Aborted
    ELSE IF numerator = 0 THEN RationalInt(0, 1)
    ELSE LET dv == gcd(iabs(numerator), iabs(denominator))
         IN  IF dv = 0 THEN Aborted
             ELSE RationalInt(c_div(iabs(numerator), dv),
                              c_div(iabs(denominator), dv))

ri_new(numerator, denominator) ==
    IF denominator = 0 THEN Aborted
    ELSE IF numerator = 0 THEN RationalInt(0, 1)
    ELSE LET neg  == \/ numerator < 0 /\ denominator > 0
                     \/ numerator > 0 /\ denominator < 0
             sign == 1 - 2 * (IF neg THEN 1 ELSE 0)
             dv   == gcd(iabs(numerator), iabs(denominator))
         IN  IF dv = 0 THEN Aborted
             ELSE RationalInt(c_div(iabs(numerator), dv),
                              c_div(sign * iabs(denominator), dv))

\* The tail shared by ri_add(), ri_sub(), ri_mul() and ri_div(): reduce
\* rn/rd by gcd_ll(), assert that both fit an int, hand them to ri_new().
ri_reduce(rn, rd) ==
    LET dv == gcd_ll(rn, rd)
        nr == c_div(rn, dv)
        dr == c_div(rd, dv)
    IN  IF nr <= INT_MAX /\ nr >= INT_MIN /\ dr <= INT_MAX /\ dr >= INT_MIN
        THEN ri_new(nr, dr)
        ELSE Aborted

\* The products below are computed in int before they are widened; with
\* operands of magnitude MaxMagnitude none of them leaves the range of int.
\* ri_add() adding the numerators without bringing them over the common
\* denominator.
ri_add_naive(lhs, rhs) ==
    LET rn == lhs.numerator + rhs.numerator
    IN  IF rn = 0 THEN ri_new(0, 1)
        ELSE ri_reduce(rn, lhs.denominator * rhs.denominator)

ri_add(lhs, rhs) ==
    LET rn == lhs.numerator * rhs.denominator + rhs.numerator * lhs.denominator
    IN  IF rn = 0 THEN ri_new(0, 1)
        ELSE ri_reduce(rn, lhs.denominator * rhs.denominator)

ri_sub(lhs, rhs) ==
    LET rn == lhs.numerator * rhs.denominator - rhs.numerator * lhs.denominator
    IN  IF rn = 0 THEN ri_new(0, 1)
        ELSE ri_reduce(rn, lhs.denominator * rhs.denominator)

ri_mul(lhs, rhs) ==
    LET rn == lhs.numerator * rhs.numerator
    IN  IF rn = 0 THEN ri_new(0, 1)
        ELSE ri_reduce(rn, lhs.denominator * rhs.denominator)

ri_div(lhs, rhs) ==
    IF rhs.numerator = 0 THEN Aborted
    ELSE IF lhs.numerator = 0 THEN ri_new(0, 1)
    ELSE ri_reduce(lhs.numerator * rhs.denominator,
                   lhs.denominator * rhs.numerator)

\* ri_cmp(); the assert(v1 != v2) holds of distinct values in lowest terms.
ri_cmp(lhs, rhs) ==
    IF lhs.denominator = rhs.denominator /\ lhs.numerator = rhs.numerator
    THEN 0
    ELSE IF signum(lhs.denominator) # signum(rhs.denominator)
    THEN (IF signum(lhs.denominator) < signum(rhs.denominator) THEN -1 ELSE 1)
    ELSE LET v1 == lhs.numerator * iabs(rhs.denominator)
             v2 == rhs.numerator * iabs(lhs.denominator)
         IN  IF v1 < v2 THEN -1 ELSE 1

\* The pairs of ints a test case can hold, the denominator not zero.
IntPairs ==
    { RationalInt(num, den) : num \in (-MaxMagnitude) .. MaxMagnitude,
                              den \in ((-MaxMagnitude) .. MaxMagnitude) \ {0} }

\* A test case: two pairs of ints, no function applied yet; the pipeline is
\* not running.
RatInit ==
    /\ PipeStart(NUM_KIDS, <<>>, MAX_LINE)
    /\ ri_op = "none"
    /\ ri_lhs \in IntPairs
    /\ ri_rhs \in IntPairs
    /\ ri_res = RationalInt(0, 1)
    /\ ri_rc = 0

\* p1_tester(): ri_new(i_num, i_den) on the ints of the left pair.
RiNew ==
    /\ ri_op = "none"
    /\ ri_op' = "ri_new"
    /\ ri_res' = ri_new(ri_lhs.numerator, ri_lhs.denominator)
    /\ UNCHANGED << ri_lhs, ri_rhs, ri_rc, pipeVars >>

\* p2_tester(): ri_cmp(lhs, rhs) on two values that obey the storage rules.
RiCmp ==
    /\ ri_op = "none"
    /\ ri_chk(ri_lhs) /\ ri_chk(ri_rhs)
    /\ ri_op' = "ri_cmp"
    /\ ri_rc' = ri_cmp(ri_lhs, ri_rhs)
    /\ UNCHANGED << ri_lhs, ri_rhs, ri_res, pipeVars >>

\* p3_tester(): (*op_func)(lhs, rhs) on two values that obey the storage
\* rules.
RiBinary(name, result) ==
    /\ ri_op = "none"
    /\ ri_chk(ri_lhs) /\ ri_chk(ri_rhs)
    /\ ri_op' = name
    /\ ri_res' = result
    /\ UNCHANGED << ri_lhs, ri_rhs, ri_rc, pipeVars >>

RiAdd == RiBinary("ri_add", ri_add(ri_lhs, ri_rhs))
RiSub == RiBinary("ri_sub", ri_sub(ri_lhs, ri_rhs))
RiMul == RiBinary("ri_mul", ri_mul(ri_lhs, ri_rhs))
RiDiv == RiBinary("ri_div", ri_div(ri_lhs, ri_rhs))

RatNext == RiNew \/ RiCmp \/ RiAdd \/ RiSub \/ RiMul \/ RiDiv

RatSpec == RatInit /\ [][RatNext]_vars

\* ------------------------------------------------- vocabulary of the claims
\* The lines of a byte stream: each runs through its newline; bytes after
\* the last newline form a last, unterminated line.
RECURSIVE LinesOf(_)
LinesOf(bytes) ==
    IF bytes = <<>> THEN <<>>
    ELSE LET nl == { k \in 1 .. Len(bytes) : bytes[k] = 10 }
             k  == IF nl = {} THEN Len(bytes) ELSE Min(nl)
         IN  <<Take(bytes, k)>> \o LinesOf(Drop(bytes, k))

Terminated(bytes) == bytes = <<>> \/ bytes[Len(bytes)] = 10

\* Lexicographic order on byte sequences: -1, 0 or 1; a proper prefix is less.
RECURSIVE LexCmp(_, _)
LexCmp(a, b) ==
    IF a = <<>> THEN (IF b = <<>> THEN 0 ELSE -1)
    ELSE IF b = <<>> THEN 1
    ELSE IF Head(a) < Head(b) THEN -1
    ELSE IF Head(a) > Head(b) THEN 1
    ELSE LexCmp(Tail(a), Tail(b))

Sign(x) == IF x < 0 THEN -1 ELSE IF x > 0 THEN 1 ELSE 0

IsSortedLex(ls) == \A k \in 1 .. (Len(ls) - 1) : LexCmp(ls[k], ls[k + 1]) <= 0

RECURSIVE LexInsert(_, _)
LexInsert(x, s) ==
    IF s = <<>> THEN <<x>>
    ELSE IF LexCmp(x, Head(s)) <= 0 THEN <<x>> \o s
    ELSE <<Head(s)>> \o LexInsert(x, Tail(s))

RECURSIVE SortLex(_)
SortLex(s) == IF s = <<>> THEN <<>> ELSE LexInsert(Head(s), SortLex(Tail(s)))

Count(ls, x) == Cardinality({ k \in 1 .. Len(ls) : ls[k] = x })

IsPerm(xs, ys) ==
    /\ Len(xs) = Len(ys)
    /\ \A k \in 1 .. Len(xs) : Count(xs, xs[k]) = Count(ys, xs[k])

\* The lines of the outbound streams of the children from i on, but child x.
RECURSIVE StreamLinesFrom(_, _)
StreamLinesFrom(i, x) ==
    IF i >= nkids THEN <<>>
    ELSE (IF i = x THEN <<>> ELSE LinesOf(wrote[i])) \o StreamLinesFrom(i + 1, x)

AllNormal == \A i \in Kid : wstatus[i] = 0
MergeOver == pc \in {"wait", "done"}

\* ------------------------------------------------------------------ claims

\* C1  Sort correctness: when the run completes, every worker having exited
\* normally, on an input of newline-terminated records, the lines on
\* standard output are a permutation of the input lines and stand in
\* non-decreasing lexicographic order (of the lines as written, newline
\* included).
C1_SortCorrectness ==
    (pc = "done" /\ Terminated(input0) /\ AllNormal)
        => /\ IsPerm(LinesOf(stdout), LinesOf(input0))
           /\ IsSortedLex(LinesOf(stdout))

\* A run completed on an input of MaxLines records that were not in order.
C1_Witness ==
    /\ pc = "done" /\ Terminated(input0) /\ AllNormal
    /\ Len(LinesOf(input0)) = MaxLines
    /\ ~ IsSortedLex(LinesOf(input0))
    /\ stdout # <<>>

\* The coordinator waits in read() for bytes of a stream that is still open,
\* or in write() for room in a pipe that still has a reader.
CoordBlocked ==
    \/ /\ pc \in {"preload", "refill"}
       /\ ~ ReadReady(Reading)
       /\ pipe2[Reading] = <<>>
    \/ /\ pc = "fputs"
       /\ rd1[n] # {}
       /\ Len(pipe1[n]) >= PipeCap

\* Worker i waits in read() or in write() likewise.
WorkerBlocked(i) ==
    \/ /\ wpc[i] = "read"
       /\ pipe1[i] = <<>>
       /\ wr1[i] # {}
    \/ /\ wpc[i] = "write"
       /\ wout[i] # <<>>
       /\ rd2[i] # {}
       /\ Len(pipe2[i]) >= PipeCap

AllBlocked ==
    /\ CoordBlocked
    /\ \A i \in Kid : wpc[i] \in {"read", "write"} => WorkerBlocked(i)

\* C2  Termination without deadlock, as the claim states it: no reachable
\* state has the coordinator and every live worker blocked on a pipe.
C2_NoDeadlock == ~ AllBlocked

\* C3  Exit status reflects worker failure, as the claim states it: the
\* coordinator exits with status 0 only if every worker exited normally.
C3_ExitStatus == status = 0 => AllNormal

\* Worker i terminated abnormally before writing anything.
CrashedSilent(i) == wstatus[i] = 1 /\ wrote[i] = <<>>

\* merge() has done its preload read of worker i.
Preloaded(i) ==
    \/ pc \in {"merge", "refill", "wait", "done"}
    \/ pc = "preload" /\ kidx > i

\* C4  The merger tolerates a failed worker: a worker that terminated
\* abnormally before writing anything is marked exhausted by the read that
\* meets the end of its stream, the coordinator goes on, and when the merge
\* is over it has emitted exactly the lines of the other workers' streams,
\* in order (those streams being sorted).
C4_MergerToleratesFailure ==
    \A i \in Kid :
        (CrashedSilent(i) /\ Preloaded(i))
            => /\ len[i] = -1
               /\ ~ kids[i].fp_from
               /\ status \in {-1, 0}
               /\ (MergeOver /\ \A j \in Kid \ {i} : IsSortedLex(LinesOf(wrote[j])))
                     => emitted = SortLex(StreamLinesFrom(0, i))

\* A run completed although a worker that had been sent input failed
\* before writing; the others' lines came out.
C4_Witness ==
    /\ pc = "done"
    /\ nkids > 1
    /\ \E i \in Kid : CrashedSilent(i) /\ sent[i] # <<>>
    /\ Len(emitted) >= 2

\* C5  Exclusive channel ownership, as the claim states it: only the
\* coordinator holds the write end of worker i's inbound pipe and the read
\* end of its outbound pipe, only worker i the other two ends.
C5_ExclusiveOwnership ==
    \A i \in Kid :
        /\ wr1[i] \subseteq {Coord}
        /\ rd1[i] \subseteq {i}
        /\ wr2[i] \subseteq {i}
        /\ rd2[i] \subseteq {Coord}

\* C6  Empty input: with the pool created and nothing on standard input,
\* nothing is ever written to a pipe or to standard output, no worker holds
\* a line, the preload marks every worker exhausted and the merge loop does
\* not run, no state has every process blocked, and the coordinator ends
\* only by returning 0 with every worker reaped.
C6_EmptyInput ==
    (input0 = <<>> /\ pc \notin {"make_kid", "failed"})
        => /\ \A i \in Kid : sent[i] = <<>> /\ wrote[i] = <<>> /\ wlines[i] = <<>>
           /\ stdout = <<>> /\ emitted = <<>>
           /\ pc \notin {"fputs", "refill", "killed"}
           /\ ~ AllBlocked
           /\ (pc \in {"merge", "wait", "done"} => \A i \in Kid : len[i] = -1)
           /\ (pc = "done" => /\ status = 0
                              /\ \A i \in Kid : wpc[i] = "reaped" /\ kids[i].pid = -1)

\* The same run under fair scheduling: it ends.
EmptyInputEnds == (input0 = <<>> /\ pc = "distribute") ~> (pc = "done")

\* The full pool ran to completion on empty input.
C6_Witness == input0 = <<>> /\ pc = "done" /\ nkids = NUM_KIDS /\ AllNormal

\* The heads of the workers not exhausted.
Heads == { lines[i] : i \in { j \in Kid : len[j] > 0 } }

\* C7  Merge invariant: every line emitted so far is no greater than any
\* head the merger holds, and when the merge of individually sorted streams
\* is over, what was emitted is the sorted concatenation of the streams.
C7_MergeInvariant ==
    (\A i \in Kid : IsSortedLex(LinesOf(wrote[i])))
        => /\ pc \in {"merge", "refill"}
                => \A k \in 1 .. Len(emitted) : \A h \in Heads :
                        LexCmp(emitted[k], h) <= 0
           /\ MergeOver => emitted = SortLex(StreamLinesFrom(0, nkids))

\* A merge of several sorted streams, two of them not empty and one of
\* two lines or more, is over.
C7_Witness ==
    /\ MergeOver
    /\ nkids > 1
    /\ \A i \in Kid : IsSortedLex(LinesOf(wrote[i]))
    /\ \E i, j \in Kid : i # j /\ wrote[i] # <<>> /\ wrote[j] # <<>>
    /\ \E i \in Kid : Len(LinesOf(wrote[i])) >= 2

\* C8  Line writes are newline-terminated, as the claim states it: what has
\* been written to a worker's inbound pipe between two records, what a
\* worker that exited normally wrote, and every string put on standard
\* output end with a newline.
C8_NewlineTerminated ==
    /\ pc \in {"distribute", "close", "preload", "merge", "refill", "wait", "done"}
          => \A i \in Kid : Terminated(sent[i])
    /\ \A i \in Kid : wstatus[i] = 0 => Terminated(wrote[i])
    /\ \A k \in 1 .. Len(emitted) : Terminated(emitted[k])

\* The pairs of lines the program compares: the lines one worker sorts,
\* and the heads the merger chooses among.
ComparedPairs ==
    UNION { { <<wlines[i][j], wlines[i][k]>> :
                j \in 1 .. Len(wlines[i]), k \in 1 .. Len(wlines[i]) } : i \in Kid }
      \cup (IF pc \in {"merge", "refill"} THEN Heads \X Heads ELSE {})

\* The content of a line: the line without its newline.
Content(l) == IF l # <<>> /\ l[Len(l)] = 10 THEN Take(l, Len(l) - 1) ELSE l

StrictPrefix(a, b) == Len(a) < Len(b) /\ Take(b, Len(a)) = a

TerminatedPairs == { p \in ComparedPairs : p[1] # <<>> /\ p[2] # <<>> /\
                                           Terminated(p[1]) /\ Terminated(p[2]) }

\* C9 as the claim states it: newline-terminated lines compare as their
\* contents do in byte-wise lexicographic order, so that a line whose
\* content is a strict prefix of another's always sorts first.
C9_ContentOrder ==
    \A p \in TerminatedPairs :
        /\ Sign(qs_compare(p[1], p[2])) = LexCmp(Content(p[1]), Content(p[2]))
        /\ Sign(strcmp(p[1], p[2])) = LexCmp(Content(p[1]), Content(p[2]))

\* C9 amended: the order of the sort and of the merge is the byte-wise,
\* case-sensitive lexicographic order of the lines as read, newline
\* included; of two newline-terminated lines of which one's content is a
\* strict prefix of the other's, the shorter sorts first exactly when the
\* byte that follows the prefix in the longer one is greater than newline.
C9_LineOrder ==
    /\ \A p \in ComparedPairs :
          /\ Sign(qs_compare(p[1], p[2])) = LexCmp(p[1], p[2])
          /\ Sign(strcmp(p[1], p[2])) = LexCmp(p[1], p[2])
    /\ \A p \in TerminatedPairs :
          StrictPrefix(Content(p[1]), Content(p[2]))
             => (strcmp(p[1], p[2]) < 0 <=> p[2][Len(p[1])] > 10)

\* A worker has sorted "\t\n" before "\n": the line with the longer
\* content first.
C9_Witness ==
    \E i \in Kid :
        /\ wpc[i] = "write"
        /\ Len(wlines[i]) = 2
        /\ Terminated(wlines[i][1]) /\ Terminated(wlines[i][2])
        /\ StrictPrefix(Content(wlines[i][2]), Content(wlines[i][1]))
        /\ qs_compare(wlines[i][1], wlines[i][2]) < 0

\* Every worker of the pool was started.
PoolCreated ==
    \A i \in Kid : wpc[i] # "none" /\ kids[i].pid # 0

\* Standard input is untouched and nothing was written anywhere.
NothingMoved ==
    /\ stdin = input0 /\ pend = <<>> /\ stdout = <<>>
    /\ \A i \in Kid : sent[i] = <<>> /\ wrote[i] = <<>>

\* C10  All-or-nothing pool creation: nothing is read from standard input
\* or written anywhere unless every worker was started and the coordinator
\* holds the two stream ends of each; when starting a worker fails the
\* coordinator exits with status 1, standard input untouched and nothing
\* written.
C10_AllOrNothing ==
    /\ ~ NothingMoved => PoolCreated
    /\ pc \in {"distribute", "fputs"}
          => \A i \in Kid : /\ kids[i].fp_to /\ kids[i].fp_from
                            /\ Coord \in wr1[i] /\ Coord \in rd2[i]
    /\ (pc # "make_kid" /\ \E i \in Kid : wpc[i] = "none")
          => pc = "failed" /\ status = 1 /\ NothingMoved

\* Starting the last of several workers failed, with input waiting.
C10_Witness ==
    /\ pc = "failed"
    /\ input0 # <<>>
    /\ wpc[nkids - 1] = "none"
    /\ \E i \in Kid : wpc[i] # "none"

\* A write to a worker's inbound channel fails: the worker is gone and no
\* process holds the read end any more.
WriteFails == pc = "fputs" /\ rd1[n] = {}

Fits(l) == Len(l) <= max_line - 1

\* The one record made of an input line under truncate-and-continue.
Truncated(l) == IF Fits(l) THEN l ELSE Take(l, max_line - 1)

\* C12 as stated: an input line longer than the line buffer is either cut to
\* one truncated record (truncate-and-continue) or makes the run report an
\* error (fail-fast), in the Distributor, the Worker and the Merger alike:
\* a run that completes with every worker exiting normally on an input with
\* such a line has failed, or has emitted one record per input line.
C12_LongLinePolicy ==
    LET ls == LinesOf(input0)
    IN  (pc = "done" /\ AllNormal /\ \E k \in 1 .. Len(ls) : ~ Fits(ls[k]))
            => \/ status # 0
               \/ IsPerm(emitted, [k \in 1 .. Len(ls) |-> Truncated(ls[k])])

\* Rule 4 without recourse to gcd(): no number above 1 divides both.
LowestTerms(val) ==
    \A k \in 2 .. val.numerator :
        ~ (val.numerator % k = 0 /\ iabs(val.denominator) % k = 0)

\* The four storage rules, zero being stored as 0/1.
StorageRules(val) ==
    /\ val.denominator # 0
    /\ val.numerator >= 0
    /\ LowestTerms(val)
    /\ val.numerator = 0 => val.denominator = 1

\* val = num/den as rational numbers, den and val.denominator not zero.
EqualsQuotient(val, num, den) == val.numerator * den = num * val.denominator

\* C13  ri_new(numerator, denominator), denominator not zero, returns a
\* value equal to numerator/denominator that obeys the four storage rules:
\* denominator not zero and carrying the sign, numerator not negative,
\* lowest terms, zero stored as 0/1.
C13_StorageRules ==
    ri_op = "ri_new" =>
        /\ StorageRules(ri_res)
        /\ EqualsQuotient(ri_res, ri_lhs.numerator, ri_lhs.denominator)
        /\ (ri_res.denominator < 0) <=>
               (ri_lhs.numerator * ri_lhs.denominator < 0)

\* ri_new() has reduced a negative quotient with a common factor, and has
\* turned a zero with a negative denominator into 0/1.
C13_Witness ==
    /\ ri_op = "ri_new"
    /\ \/ /\ ri_lhs = RationalInt(2, -4)
          /\ ri_res = RationalInt(1, -2)
       \/ /\ ri_lhs = RationalInt(0, -3)
          /\ ri_res = RationalInt(0, 1)

\* The sign of lhs - rhs as rational numbers: -1, 0 or 1.
RatOrder(lhs, rhs) ==
    Sign((lhs.numerator * rhs.denominator - rhs.numerator * lhs.denominator)
             * (lhs.denominator * rhs.denominator))

\* C14  For lhs and rhs obeying the storage rules, of any signs, ri_cmp()
\* returns 0 exactly when they are equal, -1 exactly when lhs is less than
\* rhs and +1 exactly when it is greater, so that ri_cmp(a, b) is
\* -ri_cmp(b, a).
C14_Comparison ==
    (ri_op = "ri_cmp" /\ StorageRules(ri_lhs) /\ StorageRules(ri_rhs))
        => /\ ri_rc = RatOrder(ri_lhs, ri_rhs)
           /\ ri_rc = -ri_cmp(ri_rhs, ri_lhs)

\* lhs op rhs = val as rational numbers, for the four operators.
ExactResult(op, lhs, rhs, val) ==
    LET ln == lhs.numerator
        ld == lhs.denominator
        rn == rhs.numerator
        rd == rhs.denominator
    IN  CASE op = "ri_add" -> EqualsQuotient(val, ln * rd + rn * ld, ld * rd)
          [] op = "ri_sub" -> EqualsQuotient(val, ln * rd - rn * ld, ld * rd)
          [] op = "ri_mul" -> EqualsQuotient(val, ln * rn, ld * rd)
          [] op = "ri_div" -> EqualsQuotient(val, ln * rd, ld * rn)

\* C15  For operands obeying the storage rules whose products fit in int,
\* the divisor not zero, ri_add(), ri_sub(), ri_mul() and ri_div() return
\* the exact sum, difference, product and quotient, in the form the storage
\* rules require.
C15_Arithmetic ==
    ( /\ ri_op \in {"ri_add", "ri_sub", "ri_mul", "ri_div"}
      /\ StorageRules(ri_lhs) /\ StorageRules(ri_rhs)
      /\ ri_op = "ri_div" => ri_rhs.numerator # 0 )
        => /\ StorageRules(ri_res)
           /\ ExactResult(ri_op, ri_lhs, ri_rhs, ri_res)

\* Two negative values have been added to a sum that needed reducing, and a
\* negative value divided by a negative one.
C15_Witness ==
    \/ /\ ri_op = "ri_add"
       /\ ri_lhs = RationalInt(1, -2) /\ ri_rhs = RationalInt(1, -2)
       /\ ri_res = RationalInt(1, -1)
    \/ /\ ri_op = "ri_div"
       /\ ri_lhs = RationalInt(3, -4) /\ ri_rhs = RationalInt(3, -2)
       /\ ri_res = RationalInt(1, 2)

\* The lines distribute() has read so far.
LinesRead == LinesOf(Take(input0, Len(input0) - Len(stdin)))

\* The lines ls dealt out in turn, the first of them to worker k modulo the
\* size of the pool: for each worker the bytes of its lines, in order.
RECURSIVE Deal(_, _)
Deal(ls, k) ==
    IF ls = <<>> THEN [i \in Kid |-> <<>>]
    ELSE [Deal(Tail(ls), k + 1) EXCEPT ![k % nkids] = Head(ls) \o @]

\* The number of lines in a byte stream, a last unterminated one included.
NumLines(bytes) ==
    Cardinality({ k \in 1 .. Len(bytes) : bytes[k] = 10 })
        + (IF Terminated(bytes) THEN 0 ELSE 1)

\* The bytes given to child i: those written to its pipe and, for the child
\* under the cursor, those of the line being written.
Dealt(i) == sent[i] \o (IF i = n THEN pend ELSE <<>>)

\* C16  Round-robin distribution: the k-th line read, k counted from 0, goes
\* to worker k mod N and to no other, so that each worker holds its lines in
\* input order and no two workers differ by more than one line (each has
\* the N-th part of the lines read, rounded down, or one more); the
\* coordinator closes an inbound channel only after the end of the input.
C16_RoundRobin ==
    [](\A read \in {LinesRead} :
          /\ [i \in Kid |-> Dealt(i)] = Deal(read, 0)
          /\ \A i \in Kid :
                 NumLines(Dealt(i)) - (Len(read) \div nkids) \in {0, 1}
          /\ pc = "distribute" => n = Len(read) % nkids
          /\ \A i \in Kid :
                 (/\ wpc[i] # "none" /\ Coord \notin wr1[i]
                  /\ pc \notin {"failed", "killed"})
                     => /\ stdin = <<>> /\ pend = <<>>
                        /\ pc \notin {"make_kid", "distribute", "fputs"})

\* Three lines have been dealt to two workers: the third went to the first
\* worker again, and the channels are closed.
C16_Witness ==
    /\ nkids = 2
    /\ Len(LinesOf(input0)) = 3
    /\ pc = "preload"
    /\ Len(LinesOf(sent[0])) = 2
    /\ Len(LinesOf(sent[1])) = 1

\* C17  Deterministic tie-break: the worker min_line() selects holds a head
\* that no other head precedes, and among the workers whose heads equal that
\* minimum it is the one of lowest index; its head is what is emitted, and
\* it is the worker refilled.
C17_TieBreak ==
    /\ [](pc = "refill" =>
             /\ len[min_kid] > 0
             /\ output = lines[min_kid]
             /\ \A j \in Kid : len[j] > 0 =>
                    /\ LexCmp(output, lines[j]) <= 0
                    /\ lines[j] = output => min_kid <= j)
    /\ [][ pc = "refill" /\ pc' # pc =>
              /\ emitted' = Append(emitted, lines[min_kid])
              /\ \A j \in Kid \ {min_kid} :
                     lines'[j] = lines[j] /\ len'[j] = len[j] ]_vars

\* Two workers hold equal heads and the first of them has been selected.
C17_Witness ==
    /\ pc = "refill"
    /\ \E j \in Kid : j > min_kid /\ len[j] > 0 /\ lines[j] = output

\* What worker i owes its outbound channel: the lines it received, sorted.
SortedShare(i) == Flatten(SortLex(LinesOf(sent[i])))

\* C18  A worker buffers before it emits: it writes nothing to its outbound
\* channel before it has met the end of its inbound channel; what it writes
\* is the lines it received, in sorted order; and it closes the outbound
\* channel, by exit(0), only once all of them are written.
C18_BufferThenEmit ==
    [](\A i \in Kid :
           /\ wpc[i] = "read" => wrote[i] = <<>>
           /\ wrote[i] # <<>> =>
                  /\ wr1[i] = {} /\ pipe1[i] = <<>>
                  /\ wrote[i] = Take(SortedShare(i), Len(wrote[i]))
           /\ wpc[i] = "write" => wrote[i] \o wout[i] = SortedShare(i)
           /\ wstatus[i] = 0 => wrote[i] = SortedShare(i) /\ i \notin wr2[i])

\* A worker that received "a\n" before "\n" has written "\n" and "a\n" and
\* has exited.
C18_Witness ==
    \E i \in Kid :
        /\ wstatus[i] = 0
        /\ sent[i] = <<97, 10, 10>>
        /\ wrote[i] = <<10, 97, 10>>

\* The bytes of worker i's outbound stream that read_line() has returned,
\* and the lines they make.
Consumed(i) == Take(wrote[i], Len(wrote[i]) - Len(pipe2[i]) - Len(mbuf[i]))
Taken(i) == LinesOf(Consumed(i))

\* Worker i's outbound stream: what it has written and, while it writes,
\* what it has still to write; and the lines of it after those taken.
Stream(i) == wrote[i] \o (IF wpc[i] = "write" THEN wout[i] ELSE <<>>)
Ahead(i) == LinesOf(Drop(Stream(i), Len(Consumed(i))))

\* The lines taken from the workers from i on that are no longer pending.
RECURSIVE PassedOn(_)
PassedOn(i) ==
    IF i >= nkids THEN <<>>
    ELSE (IF len[i] > 0 THEN Take(Taken(i), Len(Taken(i)) - 1) ELSE Taken(i))
             \o PassedOn(i + 1)

\* C19  Merge frontier: at the start of every iteration of the merge loop,
\* a worker that is not exhausted has exactly one pending line in lines[i],
\* the first line of its outbound stream not yet emitted, which in a sorted
\* stream is the smallest: the lines before it have been emitted, those
\* after it are not less; an exhausted worker has no pending line and
\* nothing left in its stream.
C19_MergeFrontier ==
    [](pc = "merge" =>
           /\ IsPerm(emitted, PassedOn(0))
           /\ \A i \in Kid :
                  IF len[i] > 0
                  THEN /\ Taken(i) # <<>>
                       /\ lines[i] = Taken(i)[Len(Taken(i))]
                       /\ len[i] = Len(lines[i])
                       /\ IsSortedLex(LinesOf(Stream(i))) =>
                              \A k \in 1 .. Len(Ahead(i)) :
                                  LexCmp(lines[i], Ahead(i)[k]) <= 0
                  ELSE /\ len[i] = -1
                       /\ lines[i] = <<>>
                       /\ Consumed(i) = wrote[i]
                       /\ wr2[i] = {})

\* In the middle of a merge: a line has been emitted, one worker is
\* exhausted, another holds a line of its sorted stream with more to come.
C19_Witness ==
    /\ pc = "merge"
    /\ emitted # <<>>
    /\ \E i \in Kid :
           len[i] > 0 /\ IsSortedLex(LinesOf(Stream(i))) /\ Len(Ahead(i)) > 0
    /\ \E i \in Kid : len[i] = -1

\* Slot i is marked exhausted: read_line() met the end of its stream.
Exhausted(i) == len[i] = -1

\* C20  Merger slot life cycle: the preload reads each slot exactly once, in
\* order; a slot marked exhausted is terminal, never again read from,
\* selected as minimum or closed; the merge loop ends exactly when every
\* slot is exhausted, never while a slot holds a head not yet emitted.
C20_SlotLifeCycle ==
    /\ [](pc = "preload" =>
             \A i \in Kid :
                 IF i < kidx
                 THEN \/ len[i] > 0 /\ Taken(i) = <<lines[i]>>
                      \/ Exhausted(i) /\ Taken(i) = <<>>
                 ELSE /\ Consumed(i) = <<>> /\ kids[i].fp_from
                      /\ i > kidx => mbuf[i] = <<>>)
    /\ [](pc = "refill" => ~ Exhausted(min_kid) /\ kids[min_kid].fp_from)
    /\ [](\A i \in Kid : Exhausted(i) => ~ kids[i].fp_from /\ Coord \notin rd2[i])
    /\ [](MergeOver => \A i \in Kid : Exhausted(i))
    /\ [][ /\ \A i \in Kid : Exhausted(i) =>
                  /\ len'[i] = len[i] /\ lines'[i] = lines[i]
                  /\ kids'[i].fp_from = kids[i].fp_from
                  /\ mbuf'[i] = mbuf[i] /\ pipe2'[i] = pipe2[i]
           /\ (pc = "merge" /\ pc' # pc) =>
                  (pc' = "wait" <=> \A i \in Kid : Exhausted(i)) ]_vars

\* The merge loop of a pool of two or more has ended after emitting two
\* lines or more.
C20_Witness ==
    /\ pc = "wait"
    /\ nkids >= 2
    /\ Len(emitted) >= 2
    /\ \A i \in Kid : Exhausted(i)

\* distribute() has returned: standard input is read to its end and the
\* coordinator has closed its end of every inbound channel.
DistributionOver ==
    /\ stdin = <<>> /\ pend = <<>>
    /\ \A i \in Kid : ~ kids[i].fp_to /\ Coord \notin wr1[i]

\* The coordinator has read from worker i's outbound channel: bytes have
\* left the pipe, or read_line() has set the length.
HasReadFrom(i) ==
    Len(wrote[i]) # Len(pipe2[i]) \/ mbuf[i] # <<>> \/ len[i] # 0

\* C21  Ordering of the phases: the coordinator reads from no outbound
\* channel and writes nothing to standard output before distribute() has
\* read standard input to its end and closed every inbound channel, and no
\* worker is reaped before the merge loop has ended.
C21_PhaseOrder ==
    /\ []((stdout # <<>> \/ \E i \in Kid : HasReadFrom(i)) => DistributionOver)
    /\ []((\E i \in Kid : wpc[i] = "reaped") =>
              /\ pc \in {"wait", "done"}
              /\ \A j \in Kid : Exhausted(j))
    /\ [][ (\E i \in Kid : wpc'[i] = "reaped" /\ wpc[i] # "reaped")
              => pc = "wait" ]_vars

\* A worker has been reaped after a merge that emitted something, while
\* another worker is still to be waited for.
C21_Witness ==
    /\ pc = "wait"
    /\ stdout # <<>>
    /\ \E i \in Kid : wpc[i] = "reaped"
    /\ \E i \in Kid : wpc[i] = "zombie"

\* Worker i has been waited for and its entry in the table is marked.
Marked(i) == wpc[i] = "reaped" /\ kids[i].pid = -1

\* C22  Reaping completeness: when wait_for_kids() returns normally every
\* worker of the pool has been waited for and its entry marked, pid = -1,
\* each exactly once and in whatever order the workers terminated; with an
\* entry left unmarked the coordinator exits with a non-zero status instead
\* of returning.
C22_ReapingComplete ==
    /\ [](pc = "done" => \A i \in Kid : Marked(i))
    /\ [](\A i \in Kid : (wpc[i] = "reaped" <=> kids[i].pid = -1)
                              \/ pc = "failed")
    /\ [][ \A i \in Kid :
              /\ (wpc'[i] = "reaped" /\ wpc[i] # "reaped") =>
                     /\ wpc[i] = "zombie" /\ kids[i].pid = i + 1
                     /\ kids'[i].pid = -1
                     /\ \A j \in Kid \ {i} : wpc'[j] = wpc[j] /\ kids'[j] = kids[j]
              /\ wpc[i] = "reaped" => wpc'[i] = "reaped" /\ kids'[i] = kids[i] ]_vars
    /\ [][ (pc = "wait" /\ pc' # pc) =>
              IF \A i \in Kid : kids[i].pid = -1
              THEN pc' = "done" /\ status' = 0
              ELSE pc' = "failed" /\ status' # 0 ]_vars

\* wait_for_kids() reaping out of the order of the table: a later worker is
\* waited for and marked while an earlier one is not yet.
C22_Witness ==
    /\ nkids >= 2
    /\ pc = "wait"
    /\ \E i, j \in Kid : i < j /\ Marked(j) /\ ~ Marked(i)

====
